---- MODULE Spec2Model ----
(***************************************************************************)
(* The appeals controller (src/controllers/appealsController.js) over the  *)
(* "appeals" collection of the document store.                             *)
(*                                                                         *)
(* A document is a record whose DOMAIN is the set of fields it has, so a   *)
(* field the code never wrote is absent from the document, as it is in the *)
(* store.  The collection is a function from the _id the store assigned to *)
(* the document.  The handle `db` answers collection() the way the test    *)
(* harness of the controller wires it (lines 197-203), and ObjectId(id) is *)
(* callable as the handlers call it; the store itself answers every call.  *)
(* Each handler awaits exactly one store call, which the store applies     *)
(* atomically, so a handler is one action.                                 *)
(***************************************************************************)
EXTENDS Integers, FiniteSets, Sequences, TLC

\* Bounds of the model.
MaxAppeals == 2
MaxTime == 1

APPEAL_STATUSES ==
    [NEW |-> "new", IN_PROGRESS |-> "in-progress",
     COMPLETED |-> "completed", CANCELED |-> "canceled"]

\* Text values a request carries; "" is the empty string.
Texts == {"", "a"}

\* A JSON request body over the given fields: each field absent, or a text.
Bodies(fields) == UNION {[D -> Texts] : D \in SUBSET fields}

\* The :id path parameter: a 24-hex string naming the ObjectId n, or a string
\* that is neither 24 hex characters nor 12 bytes.
WellFormedIds == {[hex |-> TRUE, n |-> k] : k \in 1..(MaxAppeals + 1)}
MalformedId == [hex |-> FALSE, n |-> 0]
ParamIds == WellFormedIds \cup {MalformedId}

VARIABLES
    appeals,   \* db.collection("appeals"): _id -> document
    now,       \* the wall clock read by new Date(), in milliseconds
    last       \* the last request handled and the response sent for it

vars == <<appeals, now, last>>

----------------------------------------------------------------------------
\* JavaScript and driver helpers.

\* !body.f : the field is undefined or the empty string.
Falsy(body, f) == f \notin DOMAIN body \/ body[f] = ""

\* ObjectId(id) throws on a string that is not a valid ObjectId.
ObjectIdThrows(id) == ~id.hex

\* ObjectId(id) for a valid string: the ObjectId the string spells.
ObjectId(id) == id.n

\* insertOne: the store assigns a fresh _id and adds the document.
InsertedId(coll) == Cardinality(DOMAIN coll) + 1

InsertOne(coll, doc) == coll @@ (InsertedId(coll) :> doc)

\* A replacement: the document becomes the fields of set and nothing else.
ApplySetReplacing(doc, set) == set

\* An update that leaves in a document whatever fields it already has.
ApplySetKeeping(doc, set) ==
    [f \in DOMAIN doc \cup DOMAIN set |->
        IF f \in DOMAIN doc THEN doc[f] ELSE set[f]]

\* { $set: set } applied to a document: the fields of set are written, every
\* other field of the document is kept.
ApplySet(doc, set) ==
    [f \in DOMAIN doc \cup DOMAIN set |->
        IF f \in DOMAIN set THEN set[f] ELSE doc[f]]

\* The filter { _id: oid }.
MatchesId(coll, oid) == {i \in DOMAIN coll : i = oid}

\* The filter { status: s }: documents that have the field with that value.
MatchesStatus(coll, s) ==
    {i \in DOMAIN coll : "status" \in DOMAIN coll[i] /\ coll[i]["status"] = s}

\* updateOne / updateMany over the matched documents: the new collection and
\* modifiedCount, the number of matched documents the update changed.
Update(coll, matched, set) ==
    [coll |-> [i \in DOMAIN coll |->
                  IF i \in matched THEN ApplySet(coll[i], set) ELSE coll[i]],
     modifiedCount |->
        Cardinality({i \in matched : ApplySet(coll[i], set) # coll[i]})]

\* A comparison that no count satisfies.
NothingModifiedNever(result) == result.modifiedCount < 0

\* result.modifiedCount === 0
NothingModified(result) == result.modifiedCount = 0

----------------------------------------------------------------------------
Init ==
    /\ appeals = <<>>
    /\ now = 0
    /\ last = [op |-> "none"]

\* Time passes between two readings of the clock.
Tick ==
    /\ now < MaxTime
    /\ now' = now + 1
    /\ UNCHANGED <<appeals, last>>

\* A validation that looks at the title alone.
CreateInvalidTitleOnly(body) == Falsy(body, "title")

\* if (!title || !description)
CreateInvalid(body) == Falsy(body, "title") \/ Falsy(body, "description")

\* The document createAppeal inserts: { title, description, createdAt }, the
\* first two destructured from the body (a field the body lacks has no value).
NewAppeal(body) ==
    [f \in (DOMAIN body \cap {"title", "description"}) \cup {"createdAt"} |->
        IF f = "createdAt" THEN now ELSE body[f]]

createAppeal(body) ==
    IF CreateInvalid(body)
    THEN /\ last' = [op |-> "createAppeal", body |-> body, code |-> 400]
         /\ UNCHANGED <<appeals, now>>
    ELSE /\ Cardinality(DOMAIN appeals) < MaxAppeals
         /\ appeals' = InsertOne(appeals, NewAppeal(body))
         /\ last' = [op |-> "createAppeal", body |-> body, code |-> 201,
                     id |-> InsertedId(appeals)]
         /\ UNCHANGED now

\* The try block the three single-record handlers share: ObjectId(id), then
\* updateOne with the $set, then 404 on modifiedCount 0, else 200; the catch
\* answers 500.  (The { $push: ... } object is passed in the options position
\* of updateOne, so the store applies the $set alone.)  The result is the
\* collection afterwards and the response code.
SetStatusById(id, status) ==
    IF ObjectIdThrows(id)
    THEN [coll |-> appeals, code |-> 500]
    ELSE LET result == Update(appeals, MatchesId(appeals, ObjectId(id)),
                              [status |-> status, updatedAt |-> now])
         IN [coll |-> result.coll,
             code |-> IF NothingModified(result) THEN 404 ELSE 200]

workOnAppeal(id) ==
    LET done == SetStatusById(id, APPEAL_STATUSES.IN_PROGRESS)
    IN /\ appeals' = done.coll
       /\ last' = [op |-> "workOnAppeal", id |-> id, body |-> <<>>,
                   code |-> done.code]
       /\ UNCHANGED now

\* A validation that rejects an absent solution but lets "" through.
SolutionUndefinedOnly(body) == "solution" \notin DOMAIN body

\* if (!solution)
SolutionMissing(body) == Falsy(body, "solution")

completeAppeal(id, body) ==
    IF SolutionMissing(body)
    THEN /\ last' = [op |-> "completeAppeal", id |-> id, body |-> body,
                     code |-> 400]
         /\ UNCHANGED <<appeals, now>>
    ELSE LET done == SetStatusById(id, APPEAL_STATUSES.COMPLETED)
         IN /\ appeals' = done.coll
            /\ last' = [op |-> "completeAppeal", id |-> id, body |-> body,
                        code |-> done.code]
            /\ UNCHANGED now

\* if (!reason)
ReasonMissing(body) == Falsy(body, "reason")

cancelAppeal(id, body) ==
    IF ReasonMissing(body)
    THEN /\ last' = [op |-> "cancelAppeal", id |-> id, body |-> body,
                     code |-> 400]
         /\ UNCHANGED <<appeals, now>>
    ELSE LET done == SetStatusById(id, APPEAL_STATUSES.CANCELED)
         IN /\ appeals' = done.coll
            /\ last' = [op |-> "cancelAppeal", id |-> id, body |-> body,
                        code |-> done.code]
            /\ UNCHANGED now

\* A bulk update whose filter is empty: it matches every document.
BulkFilterEverything(coll) == DOMAIN coll

\* The filter of the bulk update.
BulkFilter(coll) == MatchesStatus(coll, APPEAL_STATUSES.IN_PROGRESS)

cancelAllAppealsWithInProgressStatus(body) ==
    LET result == Update(appeals, BulkFilter(appeals),
                         [status |-> APPEAL_STATUSES.CANCELED,
                          updatedAt |-> now])
    IN /\ appeals' = result.coll
       /\ last' = [op |-> "cancelAllAppealsWithInProgressStatus",
                   body |-> body,
                   code |-> IF NothingModified(result) THEN 404 ELSE 200]
       /\ UNCHANGED now

\* The routes that write to the store, and the clock.  (GET /appeals reads the
\* collection and writes nothing.)
Next ==
    \/ Tick
    \/ \E body \in Bodies({"title", "description"}) : createAppeal(body)
    \/ \E id \in ParamIds : workOnAppeal(id)
    \/ \E id \in ParamIds, body \in Bodies({"solution"}) :
           completeAppeal(id, body)
    \/ \E id \in ParamIds, body \in Bodies({"reason"}) : cancelAppeal(id, body)
    \/ \E body \in Bodies({"reason"}) :
           cancelAllAppealsWithInProgressStatus(body)

Spec == Init /\ [][Next]_vars

----------------------------------------------------------------------------
\* GET /appeals.  getAppeals reads the collection and writes nothing, so it
\* is a function of the collection, the query string and the server's time
\* zone.  It is applied once to every collection drawn from the contents the
\* handlers above produce.
\*
\* Time is counted in clock ticks, the resolution of a Date (a millisecond in
\* the code); a day has TicksPerDay of them, the first at 00:00:00.000 and the
\* last at 23:59:59.999, and tick TicksPerDay \div 2 of a day is its noon.

TicksPerDay == 2

\* The calendar days a request names and documents are created on.
ListDays == {0, 1}

ListTimes == {d * TicksPerDay + t : d \in ListDays, t \in 0..(TicksPerDay - 1)}

\* The clock when the list is requested: the last tick of the last day.
ListNow == CHOOSE t \in ListTimes : \A u \in ListTimes : u <= t

\* The server's offset from UTC, local = UTC + offset, in ticks.
Offsets == {-1, 0, 1}

\* A date parameter of the query string: not given (absent or empty), a
\* date-only ISO string naming a day, or a string that is no date.
DateParams ==
    {[given |-> FALSE, iso |-> FALSE, day |-> 0],
     [given |-> TRUE, iso |-> FALSE, day |-> 0]}
    \cup {[given |-> TRUE, iso |-> TRUE, day |-> d] : d \in ListDays}

\* The status parameter: "" when not given, a status, or another word.
StatusParams ==
    {"", APPEAL_STATUSES.NEW, APPEAL_STATUSES.IN_PROGRESS,
     APPEAL_STATUSES.COMPLETED, APPEAL_STATUSES.CANCELED, "bogus"}

\* The limit parameter: not given, or a number of appeals per page.
LimitParams == {[given |-> FALSE, n |-> 0], [given |-> TRUE, n |-> 1]}

\* req.query
Queries ==
    [date : DateParams, startDate : DateParams, endDate : DateParams,
     status : StatusParams, limit : LimitParams]

\* isNaN(new Date(text))
IsNaNDate(param) == ~param.iso

\* new Date(text) for a date-only ISO string: 00:00:00.000 UTC of that day.
NewDate(param) == param.day * TicksPerDay

\* date.setHours(...) with the time of day given as a tick of the day: the
\* date moves to that time of its day in the server's local time; the result
\* is the new time value.
SetHours(t, tz, tickOfDay) ==
    ((t + tz) \div TicksPerDay) * TicksPerDay + tickOfDay - tz

\* Object.values(APPEAL_STATUSES).includes(status)
IsAppealStatus(status) ==
    \E k \in DOMAIN APPEAL_STATUSES : APPEAL_STATUSES[k] = status

\* if (date) { ... isNaN(targetDate) ... return 400 }
DateRejected(query) == query.date.given /\ IsNaNDate(query.date)

\* if (startDate && endDate)
RangeGiven(query) == query.startDate.given /\ query.endDate.given

\* if (isNaN(start) || isNaN(end)) return 400
RangeRejected(query) ==
    RangeGiven(query)
        /\ (IsNaNDate(query.startDate) \/ IsNaNDate(query.endDate))

\* query.createdAt as the two if-blocks leave it: the day of `date`, from
\* setHours(0, 0, 0, 0) to setHours(23, 59, 59, 999) of the same Date object,
\* overwritten by the range when both startDate and endDate are given.
CreatedAtFilter(query, tz) ==
    LET gte == SetHours(NewDate(query.date), tz, 0)
        lte == SetHours(gte, tz, TicksPerDay - 1)
    IN IF RangeGiven(query)
       THEN [gte |-> NewDate(query.startDate), lte |-> NewDate(query.endDate)]
       ELSE [gte |-> gte, lte |-> lte]

\* A status filter that lets every document through.
StatusFilterGivenNever(query) == FALSE

\* if (status && Object.values(APPEAL_STATUSES).includes(status))
StatusFilterGiven(query) == query.status # "" /\ IsAppealStatus(query.status)

\* The filter object handed to find().
MongoQuery(query, tz) ==
    [f \in (IF query.date.given \/ RangeGiven(query)
            THEN {"createdAt"} ELSE {})
           \cup (IF StatusFilterGiven(query) THEN {"status"} ELSE {}) |->
        IF f = "createdAt" THEN CreatedAtFilter(query, tz) ELSE query.status]

\* find(filter): the documents that satisfy every field of the filter.
Find(coll, filter) ==
    {i \in DOMAIN coll :
        /\ "createdAt" \in DOMAIN filter =>
              /\ filter["createdAt"].gte <= coll[i]["createdAt"]
              /\ coll[i]["createdAt"] <= filter["createdAt"].lte
        /\ "status" \in DOMAIN filter =>
              /\ "status" \in DOMAIN coll[i]
              /\ coll[i]["status"] = filter["status"]}

\* An order that puts the oldest document first.
AscendingOrder(coll, i, j) == coll[i]["createdAt"] <= coll[j]["createdAt"]

\* sort({ createdAt: -1 }): document i may stand before document j.
SortOrder(coll, i, j) == coll[i]["createdAt"] >= coll[j]["createdAt"]

\* .sort(...).toArray(): every arrangement of the found documents that the
\* sort order admits (the store fixes no order among equal keys).  A
\* document is listed by its _id.
SortedArrays(coll, found) ==
    {arr \in [1..Cardinality(found) -> found] :
        /\ \A i, j \in DOMAIN arr : i # j => arr[i] # arr[j]
        /\ \A i, j \in DOMAIN arr : i < j => SortOrder(coll, arr[i], arr[j])}

\* The handler.  On success it answers with the array of appeals under the
\* status code of line 79.
getAppeals(query, tz) ==
    /\ UNCHANGED <<appeals, now>>
    /\ IF DateRejected(query)
       THEN last' = [op |-> "getAppeals", query |-> query, tz |-> tz,
                     code |-> 400, error |-> "Invalid format of date"]
       ELSE IF RangeRejected(query)
       THEN last' = [op |-> "getAppeals", query |-> query, tz |-> tz,
                     code |-> 400,
                     error |-> "Invalid format of interval of dates"]
       ELSE \E arr \in SortedArrays(appeals,
                                    Find(appeals, MongoQuery(query, tz))) :
               last' = [op |-> "getAppeals", query |-> query, tz |-> tz,
                        code |-> 400, items |-> arr]

\* The documents the handlers write: what createAppeal inserts, alone or with
\* the status and updatedAt of a later update.
ListDocs ==
    {[title |-> "a", description |-> "a", createdAt |-> c] : c \in ListTimes}
    \cup {[title |-> "a", description |-> "a", createdAt |-> c,
           status |-> s, updatedAt |-> ListNow] :
             c \in ListTimes,
             s \in {APPEAL_STATUSES.IN_PROGRESS, APPEAL_STATUSES.COMPLETED,
                    APPEAL_STATUSES.CANCELED}}

\* Collections of up to MaxAppeals documents, _ids in the order of creation.
ListStores ==
    UNION {{coll \in [1..n -> ListDocs] :
               \A i, j \in 1..n :
                   i < j => coll[i]["createdAt"] <= coll[j]["createdAt"]} :
           n \in 0..MaxAppeals}

InitList ==
    /\ appeals \in ListStores
    /\ now = ListNow
    /\ last = [op |-> "none"]

\* One GET /appeals on the collection.
NextList ==
    /\ last.op = "none"
    /\ \E query \in Queries, tz \in Offsets : getAppeals(query, tz)

SpecList == InitList /\ [][NextList]_vars

----------------------------------------------------------------------------
\* Vocabulary of the properties.

Has(doc, f) == f \in DOMAIN doc

HasStatus(doc, s) == Has(doc, "status") /\ doc["status"] = s

Terminal == {APPEAL_STATUSES.COMPLETED, APPEAL_STATUSES.CANCELED}

\* The lifecycle stage of a document.  A document createAppeal has just stored
\* carries no status field; it stands at the start of the lifecycle.
Stage(doc) == IF Has(doc, "status") THEN doc["status"] ELSE APPEAL_STATUSES.NEW

AllowedEdges ==
    {<<APPEAL_STATUSES.NEW, APPEAL_STATUSES.IN_PROGRESS>>,
     <<APPEAL_STATUSES.IN_PROGRESS, APPEAL_STATUSES.COMPLETED>>,
     <<APPEAL_STATUSES.NEW, APPEAL_STATUSES.CANCELED>>,
     <<APPEAL_STATUSES.IN_PROGRESS, APPEAL_STATUSES.CANCELED>>}

SingleRecordOps == {"workOnAppeal", "completeAppeal", "cancelAppeal"}

\* The request carries what its handler requires of the body.
BodyAccepted(req) ==
    \/ req.op = "workOnAppeal"
    \/ req.op = "completeAppeal" /\ ~Falsy(req.body, "solution")
    \/ req.op = "cancelAppeal" /\ ~Falsy(req.body, "reason")

\* The request names, with a well-formed id, a document the store has.
TargetsStored(req, coll) == req.id.hex /\ ObjectId(req.id) \in DOMAIN coll

\* The request names, with a well-formed id, no document of the store.
TargetsUnknown(req, coll) == req.id.hex /\ ObjectId(req.id) \notin DOMAIN coll

----------------------------------------------------------------------------
\* C1: once an appeal's status is completed or canceled, no later call of
\* workOnAppeal, completeAppeal, cancelAppeal or
\* cancelAllAppealsWithInProgressStatus changes its status: every step keeps
\* the status of every document whose status is terminal.
C1_TerminalAbsorbing ==
    [][\A i \in DOMAIN appeals :
          (Has(appeals[i], "status") /\ appeals[i]["status"] \in Terminal)
              => HasStatus(appeals'[i], appeals[i]["status"])]_vars

\* C2: every status change follows an allowed edge: new -> in-progress,
\* in-progress -> completed, new -> canceled or in-progress -> canceled.
C2_AllowedEdgesOnly ==
    [][\A i \in DOMAIN appeals :
          Stage(appeals'[i]) # Stage(appeals[i])
              => <<Stage(appeals[i]), Stage(appeals'[i])>> \in AllowedEdges]_vars

\* C3: after a create call with non-empty title and description the response
\* is 201 with the id of the inserted document, and that document has
\* status = new, has createdAt and has no updatedAt.
C3_CreateStoresNew ==
    (last.op = "createAppeal"
        /\ ~Falsy(last.body, "title") /\ ~Falsy(last.body, "description"))
    => /\ last.code = 201
       /\ last.id \in DOMAIN appeals
       /\ HasStatus(appeals[last.id], APPEAL_STATUSES.NEW)
       /\ Has(appeals[last.id], "createdAt")
       /\ ~Has(appeals[last.id], "updatedAt")

\* C4: a create call whose title or description is missing or empty is
\* answered 400 and leaves the collection as it was.
C4_CreateValidation ==
    [][(last'.op = "createAppeal"
          /\ (Falsy(last'.body, "title") \/ Falsy(last'.body, "description")))
       => (last'.code = 400 /\ appeals' = appeals)]_vars

C4_Witness ==
    /\ last.op = "createAppeal"
    /\ last.code = 400
    /\ ~Falsy(last.body, "title")
    /\ Falsy(last.body, "description")
    /\ DOMAIN appeals # {}

\* C5: after completeAppeal answers 200 for a stored document and a non-empty
\* solution s, that document has status = completed, has updatedAt, and its
\* solution is s.
C5_CompleteRecordsSolution ==
    (last.op = "completeAppeal" /\ last.code = 200)
    => LET doc == appeals[ObjectId(last.id)]
       IN /\ HasStatus(doc, APPEAL_STATUSES.COMPLETED)
          /\ Has(doc, "updatedAt")
          /\ Has(doc, "solution")
          /\ doc["solution"] = last.body["solution"]

\* C6: after cancelAppeal answers 200 for a stored document and a non-empty
\* reason r, that document has status = canceled, has updatedAt, and its
\* reason is r.
C6_CancelRecordsReason ==
    (last.op = "cancelAppeal" /\ last.code = 200)
    => LET doc == appeals[ObjectId(last.id)]
       IN /\ HasStatus(doc, APPEAL_STATUSES.CANCELED)
          /\ Has(doc, "updatedAt")
          /\ Has(doc, "reason")
          /\ doc["reason"] = last.body["reason"]

\* C7: completeAppeal without a solution (absent or empty) and cancelAppeal
\* without a reason are answered 400 and leave every document as it was,
\* whatever the id names.
C7_TransitionValidation ==
    [][((last'.op = "completeAppeal" /\ Falsy(last'.body, "solution"))
          \/ (last'.op = "cancelAppeal" /\ Falsy(last'.body, "reason")))
       => (last'.code = 400 /\ appeals' = appeals)]_vars

C7_Witness ==
    /\ last.op = "completeAppeal"
    /\ last.code = 400
    /\ last.body = [solution |-> ""]
    /\ TargetsStored(last, appeals)

\* C8: workOnAppeal, completeAppeal with a solution and cancelAppeal with a
\* reason, called with a well-formed id that names no stored document, are
\* answered 404 and leave every document as it was.
C8_UnknownIdNotFound ==
    [][(last'.op \in SingleRecordOps /\ BodyAccepted(last')
          /\ TargetsUnknown(last', appeals))
       => (last'.code = 404 /\ appeals' = appeals)]_vars

C8_Witness ==
    /\ last.op \in {"completeAppeal", "cancelAppeal"}
    /\ BodyAccepted(last)
    /\ TargetsUnknown(last, appeals)
    /\ last.code = 404
    /\ DOMAIN appeals # {}

\* C9: workOnAppeal called with a malformed id is answered 404, as for an id
\* that names no document.
C9_MalformedIdNotFound ==
    (last.op = "workOnAppeal" /\ ~last.id.hex) => last.code = 404

\* C10: a cancelAllAppealsWithInProgressStatus call answered 200 writes
\* status = canceled and updatedAt = now on every document that was
\* in-progress, leaves no document in-progress, and leaves every other
\* document exactly as it was.
C10_BulkCancelFrame ==
    [][(last'.op = "cancelAllAppealsWithInProgressStatus" /\ last'.code = 200)
       => /\ DOMAIN appeals' = DOMAIN appeals
          /\ \A i \in DOMAIN appeals :
                IF HasStatus(appeals[i], APPEAL_STATUSES.IN_PROGRESS)
                THEN /\ HasStatus(appeals'[i], APPEAL_STATUSES.CANCELED)
                     /\ Has(appeals'[i], "updatedAt")
                     /\ appeals'[i]["updatedAt"] = now
                ELSE appeals'[i] = appeals[i]
          /\ \A i \in DOMAIN appeals' :
                ~HasStatus(appeals'[i], APPEAL_STATUSES.IN_PROGRESS)]_vars

C10_Witness ==
    /\ last.op = "cancelAllAppealsWithInProgressStatus"
    /\ last.code = 200
    /\ \E i, j \in DOMAIN appeals :
          /\ HasStatus(appeals[i], APPEAL_STATUSES.CANCELED)
          /\ appeals[i]["updatedAt"] = now
          /\ HasStatus(appeals[j], APPEAL_STATUSES.COMPLETED)
          /\ appeals[j]["updatedAt"] < now

\* C11: cancelAllAppealsWithInProgressStatus answers 404 exactly when no
\* document is in-progress at the time of the call, and then changes no
\* document; whenever some document is in-progress it answers 200.
\* (A step that leaves the clock alone and ends with the bulk cancel as the
\* last request is a step of that handler.)
C11_BulkCancelNotFound ==
    [][(last'.op = "cancelAllAppealsWithInProgressStatus" /\ now' = now)
       => LET inProgress ==
                  {i \in DOMAIN appeals :
                      HasStatus(appeals[i], APPEAL_STATUSES.IN_PROGRESS)}
          IN /\ (inProgress = {}) => (last'.code = 404 /\ appeals' = appeals)
             /\ (inProgress # {}) => last'.code = 200]_vars

C11_Witness ==
    /\ last.op = "cancelAllAppealsWithInProgressStatus"
    /\ last.code = 404
    /\ \E i, j \in DOMAIN appeals :
          /\ ~Has(appeals[i], "status")
          /\ HasStatus(appeals[j], APPEAL_STATUSES.COMPLETED)

\* C12: cancelAllAppealsWithInProgressStatus called without a reason (absent
\* or empty) is answered 400 and changes no document, also when documents
\* are in-progress.
C12_BulkCancelRequiresReason ==
    [][(last'.op = "cancelAllAppealsWithInProgressStatus" /\ now' = now
          /\ Falsy(last'.body, "reason"))
       => (last'.code = 400 /\ appeals' = appeals)]_vars

----------------------------------------------------------------------------
\* Vocabulary of the properties of GET /appeals.

\* The last request was a list and it was answered with an array of appeals.
Listed == last.op = "getAppeals" /\ "items" \in DOMAIN last

\* The last request was a list and it failed validation: 400 with an error.
ListRejected ==
    last.op = "getAppeals" /\ last.code = 400 /\ "error" \in DOMAIN last

\* The _ids of the appeals in the answer.
ItemIds == {last.items[k] : k \in DOMAIN last.items}

FourStatuses ==
    {APPEAL_STATUSES.NEW, APPEAL_STATUSES.IN_PROGRESS,
     APPEAL_STATUSES.COMPLETED, APPEAL_STATUSES.CANCELED}

\* The documents created between two clock values, both included.
CreatedWithin(from, to) ==
    {i \in DOMAIN appeals :
        from <= appeals[i]["createdAt"] /\ appeals[i]["createdAt"] <= to}

\* Page size of the documented contract: default 50, at most 100.
DefaultLimit == 50
MaxLimit == 100

EffectiveLimit(query) ==
    LET asked == IF query.limit.given THEN query.limit.n ELSE DefaultLimit
    IN IF asked > MaxLimit THEN MaxLimit ELSE asked

\* C13: for each of the four status values s, a list with status = s
\* returns only documents whose status is s.
C13_StatusFilter ==
    (Listed /\ last.query.status \in FourStatuses)
    => \A i \in ItemIds : HasStatus(appeals[i], last.query.status)

C13_Witness ==
    /\ Listed
    /\ last.query.status = APPEAL_STATUSES.COMPLETED
    /\ ~last.query.date.given
    /\ ~last.query.startDate.given
    /\ ~last.query.endDate.given
    /\ ItemIds # {}
    /\ \E j \in DOMAIN appeals \ ItemIds :
          HasStatus(appeals[j], APPEAL_STATUSES.CANCELED)

\* C14: a list whose status parameter is none of new, in-progress,
\* completed, canceled fails validation (400 with an error) and returns no
\* appeals.
C14_InvalidStatusRejected ==
    (last.op = "getAppeals"
        /\ last.query.status # "" /\ last.query.status \notin FourStatuses)
    => ListRejected

\* C15: a list with date together with startDate or endDate (or both) fails
\* validation (400 with an error).
C15_DateExcludesRange ==
    (last.op = "getAppeals" /\ last.query.date.given
        /\ (last.query.startDate.given \/ last.query.endDate.given))
    => ListRejected

\* C16: a list with only one of startDate and endDate, or with both and
\* startDate later than endDate, fails validation (400 with an error).
C16_RangeValidation ==
    (last.op = "getAppeals" /\ ~last.query.date.given
        /\ \/ last.query.startDate.given /\ ~last.query.endDate.given
           \/ ~last.query.startDate.given /\ last.query.endDate.given
           \/ /\ last.query.startDate.given /\ last.query.startDate.iso
              /\ last.query.endDate.given /\ last.query.endDate.iso
              /\ last.query.startDate.day > last.query.endDate.day)
    => ListRejected

\* C17: a list with date = D alone returns exactly the documents created
\* from 00:00:00.000 to 23:59:59.999 of day D in the server's local time,
\* whatever the server's offset from UTC; a date that does not parse fails
\* with 400.
C17_SingleDay ==
    (last.op = "getAppeals" /\ last.query.date.given
        /\ ~last.query.startDate.given /\ ~last.query.endDate.given
        /\ last.query.status = "")
    => IF last.query.date.iso
       THEN /\ Listed
            /\ ItemIds =
                 CreatedWithin(
                     last.query.date.day * TicksPerDay - last.tz,
                     last.query.date.day * TicksPerDay
                         + (TicksPerDay - 1) - last.tz)
       ELSE ListRejected

\* C18: a list with startDate = X and endDate = Y alone, X <= Y, returns
\* exactly the documents created from the start of day X to the end of day
\* Y; with X = Y every document created during that day is returned.
C18_DateRange ==
    (last.op = "getAppeals" /\ ~last.query.date.given
        /\ last.query.startDate.given /\ last.query.startDate.iso
        /\ last.query.endDate.given /\ last.query.endDate.iso
        /\ last.query.startDate.day <= last.query.endDate.day
        /\ last.query.status = "")
    => /\ Listed
       /\ ItemIds =
            CreatedWithin(
                last.query.startDate.day * TicksPerDay,
                last.query.endDate.day * TicksPerDay + (TicksPerDay - 1))

\* C19: a list returns at most limit appeals (default 50, at most 100) and
\* reports {page, limit, total, pages} with pages = ceil(total / limit),
\* total being the number of documents that match the filters.
C19_Pagination ==
    Listed
    => LET limit == EffectiveLimit(last.query)
           total == Cardinality(
                        Find(appeals, MongoQuery(last.query, last.tz)))
       IN /\ Len(last.items) <= limit
          /\ "pagination" \in DOMAIN last
          /\ last.pagination =
                [page |-> 1, limit |-> limit, total |-> total,
                 pages |-> (total + limit - 1) \div limit]

\* C20: the appeals a list returns are in descending order of createdAt,
\* the most recent first, for every combination of filters.
C20_DescendingOrder ==
    Listed
    => \A k, l \in DOMAIN last.items :
          k < l => appeals[last.items[k]]["createdAt"]
                       >= appeals[last.items[l]]["createdAt"]

C20_Witness ==
    /\ Listed
    /\ last.query.status = APPEAL_STATUSES.IN_PROGRESS
    /\ last.query.date.given
    /\ Len(last.items) >= 2
    /\ appeals[last.items[1]]["createdAt"]
           > appeals[last.items[2]]["createdAt"]
    /\ last.items[1] > last.items[2]

----------------------------------------------------------------------------
\* The query's filters are valid: every date given is an ISO date, date is
\* not combined with a range, a range has both ends in order, and the status,
\* if given, is one of the four.
ValidFilters(query) ==
    /\ \A p \in {query.date, query.startDate, query.endDate} :
          p.given => p.iso
    /\ ~(query.date.given /\ (query.startDate.given \/ query.endDate.given))
    /\ query.startDate.given <=> query.endDate.given
    /\ query.startDate.given => query.startDate.day <= query.endDate.day
    /\ query.status # "" => query.status \in FourStatuses

\* C21: a getAppeals call whose filters are valid and whose find succeeds is
\* answered with status 200, with no filter as with a status, date or range
\* filter.
C21_ListAnswers200 ==
    (last.op = "getAppeals" /\ ValidFilters(last.query)) => last.code = 200

\* C22: in every state reached by createAppeal and the transition handlers, a
\* document has a solution if and only if its status is completed, and has a
\* reason if and only if its status is canceled.
C22_SolutionAndReasonFollowStatus ==
    \A i \in DOMAIN appeals :
        /\ Has(appeals[i], "solution")
               <=> HasStatus(appeals[i], APPEAL_STATUSES.COMPLETED)
        /\ Has(appeals[i], "reason")
               <=> HasStatus(appeals[i], APPEAL_STATUSES.CANCELED)

----------------------------------------------------------------------------
\* The write routes together with GET /appeals.  The list is called here
\* without parameters, in a server on UTC (every query and offset is tried in
\* SpecList).

\* A date parameter the query string lacks.
NotGiven == [given |-> FALSE, iso |-> FALSE, day |-> 0]

\* The query of GET /appeals without parameters.
NoParameters ==
    [date |-> NotGiven, startDate |-> NotGiven, endDate |-> NotGiven,
     status |-> "", limit |-> [given |-> FALSE, n |-> 0]]

NextAll ==
    \/ Next
    \/ getAppeals(NoParameters, 0)

SpecAll == Init /\ [][NextAll]_vars

\* Field f is in both documents with one value, or in neither.
SameField(before, after, f) ==
    IF Has(before, f) THEN Has(after, f) /\ after[f] = before[f]
    ELSE ~Has(after, f)

\* C23: no operation after creation changes a document's _id, title,
\* description or createdAt: every step of a transition, of the bulk cancel
\* and of the list keeps every stored document under its _id with these
\* fields as createAppeal wrote them.
C23_CreatedFieldsFrame ==
    [][appeals' # appeals =>
          \A i \in DOMAIN appeals :
              /\ i \in DOMAIN appeals'
              /\ appeals'[i] # appeals[i] =>
                    /\ SameField(appeals[i], appeals'[i], "title")
                    /\ SameField(appeals[i], appeals'[i], "description")
                    /\ SameField(appeals[i], appeals'[i], "createdAt")]_vars

C23_Witness ==
    /\ last.op = "getAppeals"
    /\ now = 1
    /\ \E i, j \in DOMAIN appeals :
          /\ i < j
          /\ appeals[i]["title"] = "a"
          /\ appeals[i]["createdAt"] = 0
          /\ HasStatus(appeals[i], APPEAL_STATUSES.CANCELED)
          /\ appeals[i]["updatedAt"] = 1
          /\ appeals[j]["createdAt"] = 1
          /\ HasStatus(appeals[j], APPEAL_STATUSES.COMPLETED)

\* C24: updatedAt is written exactly when the status changes: a step writes a
\* document's updatedAt (with the time of the call) if it changes the
\* document's status to a different value, and a step that leaves the status
\* value the same, or fails, leaves the document's updatedAt as it was.
C24_UpdatedAtIffStatusChanges ==
    [][\A i \in DOMAIN appeals :
          IF Stage(appeals'[i]) # Stage(appeals[i])
          THEN Has(appeals'[i], "updatedAt") /\ appeals'[i]["updatedAt"] = now
          ELSE SameField(appeals[i], appeals'[i], "updatedAt")]_vars

\* The status a transition handler writes.
TargetStatus(op) ==
    CASE op = "workOnAppeal" -> APPEAL_STATUSES.IN_PROGRESS
      [] op = "completeAppeal" -> APPEAL_STATUSES.COMPLETED
      [] op = "cancelAppeal" -> APPEAL_STATUSES.CANCELED
      [] op = "cancelAllAppealsWithInProgressStatus" -> APPEAL_STATUSES.CANCELED

\* C25: a single-record transition issued again on a document that already
\* has the handler's target status succeeds again: cancelAppeal with a reason
\* on a canceled document is answered 200, not 404, and leaves the status
\* canceled; likewise workOnAppeal on an in-progress document and
\* completeAppeal with a solution on a completed one.
C25_RetrySucceeds ==
    [][(/\ last'.op \in SingleRecordOps
        /\ now' = now
        /\ BodyAccepted(last')
        /\ TargetsStored(last', appeals)
        /\ HasStatus(appeals[ObjectId(last'.id)], TargetStatus(last'.op)))
       => /\ last'.code = 200
          /\ HasStatus(appeals'[ObjectId(last'.id)],
                       TargetStatus(last'.op))]_vars

----------------------------------------------------------------------------
\* Two transition requests in flight for one stored document.  Each handler
\* has read the clock for its $set and sent its one update; the store applies
\* an update to one document at a time, the filter read and the $set written
\* in one step, and the steps of the two requests in any order.  updateOne
\* visits the document its _id filter names, updateMany every document.  In
\* this specification `last` holds the two requests and how far the store has
\* come with each: the documents visited, the count of modified documents,
\* the response once it is sent (0 before), and, as a record of the history,
\* the requests that wrote to the document in the order of their writes.

RaceKinds == SingleRecordOps \cup {"cancelAllAppealsWithInProgressStatus"}

\* Collections of documents created on the first tick.
RaceStores ==
    {coll \in ListStores :
        /\ coll # <<>>
        /\ \A i \in DOMAIN coll, t \in ListTimes : coll[i]["createdAt"] <= t}

\* The clock while the two requests are in flight, and the readings of it
\* the two handlers took for updatedAt.
RaceNow == ListNow + 1

RaceStamps == {ListNow, RaceNow}

InitRace ==
    /\ appeals \in RaceStores
    /\ now = RaceNow
    /\ last \in [op : {"race"}, id : DOMAIN appeals,
                 kinds : RaceKinds \X RaceKinds, at : RaceStamps \X RaceStamps,
                 scanned : {<<{}, {}>>}, modified : {<<0, 0>>},
                 codes : {<<0, 0>>}, writes : {<<>>}]

\* The documents the update of request k visits.
ToScan(k) ==
    IF last.kinds[k] = "cancelAllAppealsWithInProgressStatus"
    THEN DOMAIN appeals
    ELSE MatchesId(appeals, last.id)

\* The store visits document i for the update of request k: if the document
\* satisfies the filter the $set is applied to it.  The visit that ends the
\* update is followed by the handler's response.
RaceVisit(k, i) ==
    /\ i \in ToScan(k) \ last.scanned[k]
    /\ LET matched ==
               {i} \cap
                 (IF last.kinds[k] = "cancelAllAppealsWithInProgressStatus"
                  THEN BulkFilter(appeals)
                  ELSE MatchesId(appeals, last.id))
           result == Update(appeals, matched,
                            [status |-> TargetStatus(last.kinds[k]),
                             updatedAt |-> last.at[k]])
           count == last.modified[k] + result.modifiedCount
       IN /\ appeals' = result.coll
          /\ last' = [last EXCEPT
                        !.scanned[k] = @ \cup {i},
                        !.modified[k] = count,
                        !.codes[k] =
                            IF last.scanned[k] \cup {i} # ToScan(k) THEN @
                            ELSE IF NothingModified([modifiedCount |-> count])
                                 THEN 404 ELSE 200,
                        !.writes = IF last.id \in matched
                                   THEN Append(@, k) ELSE @]
    /\ UNCHANGED now

NextRace == \E k \in 1..2, i \in DOMAIN appeals : RaceVisit(k, i)

SpecRace == InitRace /\ [][NextRace]_vars

\* C26: when two transition requests (workOnAppeal, completeAppeal,
\* cancelAppeal or the bulk cancel) for one stored document run together,
\* the document's status is the target status of the request whose update
\* the store applied to it last, with that request's updatedAt; no status is
\* ever outside new, in-progress, completed and canceled; and a bulk cancel
\* that has been answered has left no other document in-progress.
C26_LastWriteWins ==
    /\ \A i \in DOMAIN appeals :
          Has(appeals[i], "status") => appeals[i]["status"] \in FourStatuses
    /\ last.writes # <<>> =>
          LET k == last.writes[Len(last.writes)]
          IN /\ HasStatus(appeals[last.id], TargetStatus(last.kinds[k]))
             /\ appeals[last.id]["updatedAt"] = last.at[k]
    /\ \A k \in 1..2 :
          (last.kinds[k] = "cancelAllAppealsWithInProgressStatus"
              /\ last.codes[k] # 0)
          => \A i \in DOMAIN appeals \ {last.id} :
                ~HasStatus(appeals[i], APPEAL_STATUSES.IN_PROGRESS)

C26_Witness ==
    /\ last.kinds = <<"completeAppeal", "cancelAllAppealsWithInProgressStatus">>
    /\ last.writes = <<2, 1>>
    /\ last.codes = <<200, 200>>
    /\ last.at = <<ListNow, RaceNow>>
    /\ HasStatus(appeals[last.id], APPEAL_STATUSES.COMPLETED)
    /\ \E j \in DOMAIN appeals \ {last.id} :
          /\ HasStatus(appeals[j], APPEAL_STATUSES.CANCELED)
          /\ appeals[j]["updatedAt"] = RaceNow

====
